---------------------------- MODULE Spec2Model ----------------------------
(***************************************************************************)
(* Model of ppfl_python_worker/analysis/analyzer.py: the extraction of     *)
(* feature vectors from statistics records, the field-identity gate, the   *)
(* Wasserstein distance and the two comparison entry points.               *)
(*                                                                         *)
(* The module is a library of pure functions.  A state is one call: the    *)
(* function called (op), its arguments, and, once the call has run, its    *)
(* outcome (result) and the sequence of helpers it invoked (calls).        *)
(***************************************************************************)
EXTENDS Integers, Sequences, FiniteSets, TLC

VARIABLES
    op,                  \* the function of analyzer.py being called
    candidate_stats,     \* argument: statistics record (a dict)
    root_stats,          \* argument: statistics record (a dict)
    candidate_field_id,  \* argument: field identifier (str, None, or other)
    root_field_id,       \* argument: field identifier (str, None, or other)
    pc,                  \* "call" before the function has run, "done" after
    result,              \* the outcome: a returned value or a raised exception
    calls                \* the helpers the function invoked, in order

vars == <<op, candidate_stats, root_stats, candidate_field_id, root_field_id,
          pc, result, calls>>

---------------------------------------------------------------------------
(* Bounds of the model. *)

\* Longest identifier enumerated over Alphabet.
MaxIdLen == 2

\* Largest metric value stored in a statistics record.
MaxVal == 2

\* Most metrics present in a record handed to an extraction function.
MaxKeys == 2

---------------------------------------------------------------------------
(* Python values. *)

\* A str is the sequence of its characters, each a one-character string.
PyStr(s) == [t |-> "str", s |-> s, n |-> 0]
NoneV == [t |-> "none", s |-> <<>>, n |-> 0]
PyInt(n) == [t |-> "int", s |-> <<>>, n |-> n]

\* Outcomes of a call.
Returned(kind, v) == [kind |-> kind, val |-> v]
Raised(exc) == [kind |-> "raise", val |-> exc]
NoResult == [kind |-> "pending", val |-> 0]

\* float("inf")
Inf == Returned("inf", 0)

\* truthiness: None, "" and 0 are falsy
Truthy(x) ==
    CASE x.t = "none" -> FALSE
      [] x.t = "str" -> x.s # <<>>
      [] x.t = "int" -> x.n # 0

---------------------------------------------------------------------------
(* str.lower, str.split("/")[-1], and the `in` operator on str. *)

UpperCase == <<"A","B","C","D","E","F","G","H","I","J","K","L","M",
               "N","O","P","Q","R","S","T","U","V","W","X","Y","Z">>
LowerCase == <<"a","b","c","d","e","f","g","h","i","j","k","l","m",
               "n","o","p","q","r","s","t","u","v","w","x","y","z">>

LowerChar(c) ==
    IF \E i \in DOMAIN UpperCase : UpperCase[i] = c
    THEN LowerCase[CHOOSE i \in DOMAIN UpperCase : UpperCase[i] = c]
    ELSE c

Lower(s) == [i \in DOMAIN s |-> LowerChar(s[i])]

\* s.split("/")[-1]: what follows the last "/", the whole of s if it has none
LastSegment(s) ==
    LET slashes == {i \in DOMAIN s : s[i] = "/"}
    IN  IF slashes = {} THEN s
        ELSE LET last == CHOOSE i \in slashes : \A j \in slashes : j <= i
             IN  SubSeq(s, last + 1, Len(s))

\* Mutant of Contains: fuzzy containment, a is a subsequence of b.
RECURSIVE Contains_subsequence(_, _)
Contains_subsequence(a, b) ==
    IF a = <<>> THEN TRUE
    ELSE IF b = <<>> THEN FALSE
    ELSE IF Head(a) = Head(b) THEN Contains_subsequence(Tail(a), Tail(b))
    ELSE Contains_subsequence(a, Tail(b))

\* a in b, for two str
Contains(a, b) ==
    \E i \in 0..(Len(b) - Len(a)) : SubSeq(b, i + 1, i + Len(a)) = a


---------------------------------------------------------------------------
(* dict.get and the statistics records. *)

ScalarKeys == {"min", "max", "mean", "median", "stdDev", "uniqueCount", "nullCount"}
PctKeys == {"p25", "p50", "p75"}

\* {}
EmptyDict == [k \in {} |-> 0]

\* d.get(k, 0)
Get(d, k) == IF k \in DOMAIN d THEN d[k] ELSE 0

\* The value stored under "percentiles": a dict, or something that is not one.
PctDict(d) == [t |-> "dict", d |-> d]
PctNone == [t |-> "none", d |-> EmptyDict]
PctNum == [t |-> "int", d |-> EmptyDict]

\* stats.get("percentiles", {})
GetPercentiles(stats) ==
    IF "percentiles" \in DOMAIN stats THEN stats["percentiles"] ELSE PctDict(EmptyDict)

\* extract_percentiles: reads p25, p50, p75 from the top level of stats
extract_percentiles(stats) ==
    LET p25 == Get(stats, "p25")
        p50 == Get(stats, "p50")
        p75 == Get(stats, "p75")
    IN  Returned("list", <<p25, p50, p75>>)

\* Mutant of extract_statistics: the percentiles are read from the top level
\* of stats, as extract_percentiles reads them.
extract_statistics_top_level_percentiles(stats) ==
    Returned("list", <<Get(stats, "min"), Get(stats, "max"), Get(stats, "mean"),
                       Get(stats, "median"), Get(stats, "stdDev"),
                       Get(stats, "uniqueCount"), Get(stats, "nullCount"),
                       Get(stats, "p25"), Get(stats, "p50"), Get(stats, "p75")>>)

\* extract_statistics: percentiles.get raises AttributeError when the value
\* under "percentiles" has no get method (None, a number)
extract_statistics(stats) ==
    LET min_val == Get(stats, "min")
        max_val == Get(stats, "max")
        mean == Get(stats, "mean")
        median == Get(stats, "median")
        std_dev == Get(stats, "stdDev")
        unique_count == Get(stats, "uniqueCount")
        null_count == Get(stats, "nullCount")
        percentiles == GetPercentiles(stats)
    IN  IF percentiles.t # "dict" THEN Raised("AttributeError")
        ELSE LET p25 == Get(percentiles.d, "p25")
                 p50 == Get(percentiles.d, "p50")
                 p75 == Get(percentiles.d, "p75")
             IN  Returned("list", <<min_val, max_val, mean, median, std_dev,
                                    unique_count, null_count, p25, p50, p75>>)

---------------------------------------------------------------------------
(* scipy.stats.wasserstein_distance(u_values, v_values), for two non-empty  *)
(* vectors of integers.  The value is exact: the float is kept as the       *)
(* reduced fraction num/den.                                                *)

RECURSIVE Insert(_, _)
Insert(x, s) ==
    IF s = <<>> THEN <<x>>
    ELSE IF x <= Head(s) THEN <<x>> \o s
    ELSE <<Head(s)>> \o Insert(x, Tail(s))

RECURSIVE Sorted(_)
Sorted(s) == IF s = <<>> THEN <<>> ELSE Insert(Head(s), Sorted(Tail(s)))

RECURSIVE Gcd(_, _)
Gcd(a, b) == IF b = 0 THEN a ELSE Gcd(b, a % b)

Abs(x) == IF x < 0 THEN -x ELSE x

Float(num, den) ==
    LET g == Gcd(num, den)
    IN  Returned("float", <<num \div g, den \div g>>)

\* sorted(values).searchsorted(x, 'right'): how many values are <= x
SearchSortedRight(values, x) == Cardinality({j \in DOMAIN values : values[j] <= x})

RECURSIVE SumTo(_, _)
SumTo(f, n) == IF n = 0 THEN 0 ELSE f[n] + SumTo(f, n - 1)

\* sum(|u_cdf - v_cdf| * deltas) over the breakpoints of the merged sample
wasserstein_distance(u_values, v_values) ==
    LET all_values == Sorted(u_values \o v_values)
        n == Len(all_values) - 1
        deltas == [i \in 1..n |-> all_values[i + 1] - all_values[i]]
        u_cdf_indices == [i \in 1..n |-> SearchSortedRight(u_values, all_values[i])]
        v_cdf_indices == [i \in 1..n |-> SearchSortedRight(v_values, all_values[i])]
        term == [i \in 1..n |->
                    Abs(u_cdf_indices[i] * Len(v_values)
                        - v_cdf_indices[i] * Len(u_values)) * deltas[i]]
    IN  Float(SumTo(term, n), Len(u_values) * Len(v_values))

---------------------------------------------------------------------------
(* The comparison entry points and the gate.  Each yields the outcome and  *)
(* the helpers invoked on the way.                                         *)

Outcome(out, trace) == [out |-> out, calls |-> trace]

\* Mutant of compare_percentiles: the root vector is taken with
\* extract_statistics.
compare_percentiles_root_full_vector(cs, rs) ==
    LET candidate_values == extract_percentiles(cs)
        root_values == extract_statistics(rs)
    IN  IF root_values.kind = "raise"
        THEN Outcome(root_values, <<"extract_percentiles", "extract_statistics">>)
        ELSE Outcome(wasserstein_distance(candidate_values.val, root_values.val),
                     <<"extract_percentiles", "extract_statistics",
                       "wasserstein_distance">>)

\* compare_percentiles
compare_percentiles(cs, rs) ==
    LET candidate_values == extract_percentiles(cs)
        root_values == extract_percentiles(rs)
    IN  Outcome(wasserstein_distance(candidate_values.val, root_values.val),
                <<"extract_percentiles", "extract_percentiles", "wasserstein_distance">>)

\* The body of the try block of should_compare_fields: TRUE / FALSE for
\* "returned True" / "fell through", or the exception it raised.
GateTryBody(cid, rid) ==
    IF cid.t # "str" \/ rid.t # "str" THEN Raised("AttributeError")
    ELSE LET candidate_field_name == Lower(LastSegment(cid.s))
             root_field_name == Lower(LastSegment(rid.s))
         IN  IF candidate_field_name = root_field_name THEN Returned("bool", TRUE)
             ELSE IF Contains(candidate_field_name, root_field_name)
                     \/ Contains(root_field_name, candidate_field_name)
                  THEN Returned("bool", TRUE)
                  ELSE Returned("bool", FALSE)

\* Mutant of should_compare_fields: no try/except around the parsing.
should_compare_fields_no_except(cid, rid) ==
    IF ~Truthy(cid) \/ ~Truthy(rid) THEN Returned("bool", FALSE)
    ELSE IF cid = rid THEN Returned("bool", TRUE)
    ELSE GateTryBody(cid, rid)

\* should_compare_fields
should_compare_fields(cid, rid) ==
    IF ~Truthy(cid) \/ ~Truthy(rid) THEN Returned("bool", FALSE)
    ELSE IF cid = rid THEN Returned("bool", TRUE)
    ELSE LET body == GateTryBody(cid, rid)
         IN  IF body.kind = "raise" THEN Returned("bool", FALSE)  \* except Exception
             ELSE body

\* the tail of compare_statistics: extraction and distance
FullDistance(cs, rs, trace) ==
    LET candidate_values == extract_statistics(cs)
        root_values == extract_statistics(rs)
    IN  IF candidate_values.kind = "raise"
        THEN Outcome(candidate_values, trace \o <<"extract_statistics">>)
        ELSE IF root_values.kind = "raise"
        THEN Outcome(root_values, trace \o <<"extract_statistics", "extract_statistics">>)
        ELSE Outcome(wasserstein_distance(candidate_values.val, root_values.val),
                     trace \o <<"extract_statistics", "extract_statistics",
                                "wasserstein_distance">>)

\* Mutant of compare_statistics: the sentinel is not returned, the call goes
\* on to the distance when the gate rejects.
compare_statistics_no_return(cs, rs, cid, rid) ==
    IF cid # NoneV /\ rid # NoneV
    THEN LET gate == should_compare_fields(cid, rid)
         IN  IF gate.kind = "raise" THEN Outcome(gate, <<"should_compare_fields">>)
             ELSE FullDistance(cs, rs, <<"should_compare_fields">>)
    ELSE FullDistance(cs, rs, <<>>)

\* Mutant of compare_statistics: gated when either identifier is supplied.
compare_statistics_either_supplied(cs, rs, cid, rid) ==
    IF cid # NoneV \/ rid # NoneV
    THEN LET gate == should_compare_fields(cid, rid)
         IN  IF gate.kind = "raise" THEN Outcome(gate, <<"should_compare_fields">>)
             ELSE IF ~gate.val THEN Outcome(Inf, <<"should_compare_fields">>)
             ELSE FullDistance(cs, rs, <<"should_compare_fields">>)
    ELSE FullDistance(cs, rs, <<>>)

\* Mutant of compare_statistics: gated when both identifiers are truthy.
compare_statistics_truthy_ids(cs, rs, cid, rid) ==
    IF Truthy(cid) /\ Truthy(rid)
    THEN LET gate == should_compare_fields(cid, rid)
         IN  IF gate.kind = "raise" THEN Outcome(gate, <<"should_compare_fields">>)
             ELSE IF ~gate.val THEN Outcome(Inf, <<"should_compare_fields">>)
             ELSE FullDistance(cs, rs, <<"should_compare_fields">>)
    ELSE FullDistance(cs, rs, <<>>)

\* Mutant of compare_statistics: the root vector is taken with
\* extract_percentiles.
compare_statistics_root_percentiles(cs, rs, cid, rid) ==
    LET tail(trace) ==
            LET candidate_values == extract_statistics(cs)
                root_values == extract_percentiles(rs)
            IN  IF candidate_values.kind = "raise"
                THEN Outcome(candidate_values, trace \o <<"extract_statistics">>)
                ELSE Outcome(wasserstein_distance(candidate_values.val, root_values.val),
                             trace \o <<"extract_statistics", "extract_percentiles",
                                        "wasserstein_distance">>)
    IN  IF cid # NoneV /\ rid # NoneV
        THEN LET gate == should_compare_fields(cid, rid)
             IN  IF gate.kind = "raise" THEN Outcome(gate, <<"should_compare_fields">>)
                 ELSE IF ~gate.val THEN Outcome(Inf, <<"should_compare_fields">>)
                 ELSE tail(<<"should_compare_fields">>)
        ELSE tail(<<>>)

\* compare_statistics
compare_statistics(cs, rs, cid, rid) ==
    IF cid # NoneV /\ rid # NoneV
    THEN LET gate == should_compare_fields(cid, rid)
         IN  IF gate.kind = "raise" THEN Outcome(gate, <<"should_compare_fields">>)
             ELSE IF ~gate.val THEN Outcome(Inf, <<"should_compare_fields">>)
             ELSE FullDistance(cs, rs, <<"should_compare_fields">>)
    ELSE FullDistance(cs, rs, <<>>)

---------------------------------------------------------------------------
(* The arguments the calls are made with. *)

Alphabet == {"a", "b", "A", "/"}

RECURSIVE Strings(_)
Strings(n) ==
    IF n = 0 THEN {<<>>}
    ELSE LET shorter == Strings(n - 1)
         IN  shorter \cup {Append(s, c) : s \in shorter, c \in Alphabet}

A_Foo == PyStr(<<"a", "/", "f", "o", "o">>)
B_Bar == PyStr(<<"b", "/", "b", "a", "r">>)
X_Name == PyStr(<<"x", "/", "n", "a", "m", "e">>)
Y_Surname == PyStr(<<"y", "/", "s", "u", "r", "n", "a", "m", "e">>)
Data_User_Id == PyStr(<<"d", "a", "t", "a", "/", "u", "s", "e", "r", "_", "i", "d">>)
Meta_UserId == PyStr(<<"m", "e", "t", "a", "/", "U", "s", "e", "r", "I", "d">>)
EmptyStr == PyStr(<<>>)

NamedIds == {A_Foo, B_Bar, X_Name, Y_Surname, Data_User_Id, Meta_UserId}

\* identifiers that are not str: None, and two numbers (0 is falsy)
NonStrIds == {NoneV, PyInt(0), PyInt(7)}

\* the identifiers should_compare_fields is called with
GateIds == {PyStr(s) : s \in Strings(MaxIdLen)} \cup NamedIds \cup NonStrIds

\* the identifiers compare_statistics is called with
CallerIds == {NoneV, EmptyStr, PyStr(<<"a", "/">>), A_Foo, B_Bar, X_Name, Y_Surname,
              PyInt(7)}

Values == 1..MaxVal

\* dicts over the keys K with at most n of them present
FlatDicts(K, n) ==
    UNION {[S -> Values] : S \in {T \in SUBSET K : Cardinality(T) <= n}}

\* what a record holds under "percentiles" when it has the key: a dict, or
\* None or a number (malformed)
PctValues(n) == {PctDict(d) : d \in FlatDicts(PctKeys, n)} \cup {PctNone, PctNum}

WithPercentiles(D, P) == {d @@ ("percentiles" :> p) : d \in D, p \in P}

\* the records the extraction functions are called with
Records ==
    FlatDicts(ScalarKeys \cup PctKeys, MaxKeys)
    \cup WithPercentiles(FlatDicts(ScalarKeys \cup PctKeys, MaxKeys - 1),
                         PctValues(MaxKeys))

\* the records the comparison functions are called with: one metric at most
PairRecords ==
    FlatDicts(ScalarKeys \cup PctKeys, 1)
    \cup WithPercentiles({EmptyDict}, PctValues(1))

\* compare_percentiles is also called with every choice of the three
\* top-level percentiles
PercentileRecords == PairRecords \cup FlatDicts(PctKeys, Cardinality(PctKeys))

Ops == {"extract_percentiles", "extract_statistics", "compare_percentiles",
        "should_compare_fields", "compare_statistics"}

---------------------------------------------------------------------------
(* The state machine: a call is set up, then runs to its outcome. *)

Init ==
    /\ pc = "call"
    /\ result = NoResult
    /\ calls = <<>>
    /\ op \in Ops
    /\ candidate_stats \in CASE op = "should_compare_fields" -> {EmptyDict}
                             [] op \in {"extract_percentiles", "extract_statistics"}
                                  -> Records
                             [] op = "compare_percentiles" -> PercentileRecords
                             [] OTHER -> PairRecords
    /\ root_stats \in CASE op = "compare_percentiles" -> PercentileRecords
                        [] op = "compare_statistics" -> PairRecords
                        [] OTHER -> {EmptyDict}
    /\ candidate_field_id \in CASE op = "should_compare_fields" -> GateIds
                                [] op = "compare_statistics" -> CallerIds
                                [] OTHER -> {NoneV}
    /\ root_field_id \in CASE op = "should_compare_fields" -> GateIds
                           [] op = "compare_statistics" -> CallerIds
                           [] OTHER -> {NoneV}

Finish(outcome) ==
    /\ pc' = "done"
    /\ result' = outcome.out
    /\ calls' = outcome.calls
    /\ UNCHANGED <<op, candidate_stats, root_stats, candidate_field_id, root_field_id>>

ExtractPercentiles ==
    /\ pc = "call" /\ op = "extract_percentiles"
    /\ Finish(Outcome(extract_percentiles(candidate_stats), <<>>))

ExtractStatistics ==
    /\ pc = "call" /\ op = "extract_statistics"
    /\ Finish(Outcome(extract_statistics(candidate_stats), <<>>))

ComparePercentiles ==
    /\ pc = "call" /\ op = "compare_percentiles"
    /\ Finish(compare_percentiles(candidate_stats, root_stats))

ShouldCompareFields ==
    /\ pc = "call" /\ op = "should_compare_fields"
    /\ Finish(Outcome(should_compare_fields(candidate_field_id, root_field_id), <<>>))

CompareStatistics ==
    /\ pc = "call" /\ op = "compare_statistics"
    /\ Finish(compare_statistics(candidate_stats, root_stats,
                                 candidate_field_id, root_field_id))

Next ==
    \/ ExtractPercentiles
    \/ ExtractStatistics
    \/ ComparePercentiles
    \/ ShouldCompareFields
    \/ CompareStatistics

Spec == Init /\ [][Next]_vars

---------------------------------------------------------------------------
(* Properties. *)

Done(o) == pc = "done" /\ op = o

PyTrue == Returned("bool", TRUE)
PyFalse == Returned("bool", FALSE)
Zero == Returned("float", <<0, 1>>)

Range(f) == {f[i] : i \in DOMAIN f}

BothSupplied == candidate_field_id # NoneV /\ root_field_id # NoneV

\* the distance taken directly on the two full vectors
DirectDistance(cs, rs) ==
    LET a == extract_statistics(cs)
        b == extract_statistics(rs)
    IN  IF a.kind = "raise" THEN a
        ELSE IF b.kind = "raise" THEN b
        ELSE wasserstein_distance(a.val, b.val)

Count(s, v) == Cardinality({i \in DOMAIN s : s[i] = v})

IsPermutation(a, b) ==
    /\ Len(a) = Len(b)
    /\ \A v \in Range(a) \cup Range(b) : Count(a, v) = Count(b, v)

\* the lower-cased last segment of a str identifier
Leaf(id) == Lower(LastSegment(id.s))

\* C1: when both identifiers are supplied and the gate rejects them,
\* compare_statistics returns float("inf") having called neither
\* extract_statistics nor wasserstein_distance, whatever the two records.
C1_SentinelShortCircuit ==
    (Done("compare_statistics") /\ BothSupplied
        /\ should_compare_fields(candidate_field_id, root_field_id) = PyFalse)
    => (result = Inf /\ calls = <<"should_compare_fields">>)

C1_Witness ==
    /\ Done("compare_statistics")
    /\ candidate_field_id = A_Foo /\ root_field_id = B_Bar
    /\ DOMAIN candidate_stats = {"mean"} /\ DOMAIN root_stats = {"percentiles"}
    /\ result = Inf /\ calls = <<"should_compare_fields">>

\* C2: when at least one identifier is None, compare_statistics does not
\* consult the gate, its result is the distance taken directly on the two
\* full vectors, and it is never float("inf").
C2_OmittedIdBypassesGate ==
    (Done("compare_statistics") /\ ~BothSupplied)
    => /\ "should_compare_fields" \notin Range(calls)
       /\ result = DirectDistance(candidate_stats, root_stats)
       /\ result # Inf

C2_Witness ==
    /\ Done("compare_statistics")
    /\ candidate_field_id = NoneV /\ root_field_id = EmptyStr
    /\ result.kind = "float" /\ result.val[1] > 0

\* C3 (as claimed): two non-empty, unequal str identifiers whose leaf names
\* are unequal and one of which is empty are rejected by the gate.
C3_EmptyLeafRejected ==
    (Done("should_compare_fields")
        /\ candidate_field_id.t = "str" /\ root_field_id.t = "str"
        /\ Truthy(candidate_field_id) /\ Truthy(root_field_id)
        /\ candidate_field_id # root_field_id
        /\ Leaf(candidate_field_id) # Leaf(root_field_id)
        /\ (Leaf(candidate_field_id) = <<>> \/ Leaf(root_field_id) = <<>>))
    => result = PyFalse

\* C4 (as claimed): should_compare_fields("data/user_id", "meta/UserId")
\* returns True.
C4_UserIdAccepted ==
    (Done("should_compare_fields")
        /\ candidate_field_id = Data_User_Id /\ root_field_id = Meta_UserId)
    => result = PyTrue

\* C4 (amended): should_compare_fields("data/user_id", "meta/UserId")
\* returns False: the leaf names "user_id" and "userid" are not equal and
\* neither is a substring of the other.
C4_UserIdRejected ==
    (Done("should_compare_fields")
        /\ candidate_field_id = Data_User_Id /\ root_field_id = Meta_UserId)
    => result = PyFalse

C4_Witness ==
    /\ Done("should_compare_fields")
    /\ candidate_field_id = Data_User_Id /\ root_field_id = Meta_UserId
    /\ Leaf(candidate_field_id) = <<"u", "s", "e", "r", "_", "i", "d">>
    /\ Leaf(root_field_id) = <<"u", "s", "e", "r", "i", "d">>
    /\ result = PyFalse

\* C5 (as claimed): no extraction or comparison call raises, whatever the
\* record holds under "percentiles".
C5_NeverRaises ==
    (pc = "done" /\ op \in {"extract_percentiles", "extract_statistics",
                            "compare_percentiles", "compare_statistics"})
    => result.kind # "raise"

StatOrder == <<"min", "max", "mean", "median", "stdDev", "uniqueCount", "nullCount">>
PctOrder == <<"p25", "p50", "p75">>

\* the value of key k in dict d, 0 when the key is absent
ValueOrZero(d, k) == IF k \in DOMAIN d THEN d[k] ELSE 0

\* the record has no "percentiles" key, or a dict under it
WellFormed(stats) ==
    "percentiles" \in DOMAIN stats => stats["percentiles"].t = "dict"

NestedPercentiles(stats) ==
    IF "percentiles" \in DOMAIN stats THEN stats["percentiles"].d ELSE EmptyDict

\* C6: extract_statistics returns 10 entries, the seven scalar metrics in
\* order and then p25, p50, p75 of the nested "percentiles" dict;
\* extract_percentiles returns 3 entries, p25, p50, p75 of the top level;
\* an absent key gives 0, a present key its value.
C6_FixedOrderDefaultZero ==
    /\ (Done("extract_statistics") /\ WellFormed(candidate_stats))
       => /\ result.kind = "list"
          /\ Len(result.val) = 10
          /\ \A i \in 1..7 : result.val[i] = ValueOrZero(candidate_stats, StatOrder[i])
          /\ \A i \in 1..3 :
                result.val[7 + i] = ValueOrZero(NestedPercentiles(candidate_stats),
                                                PctOrder[i])
    /\ Done("extract_percentiles")
       => /\ result.kind = "list"
          /\ Len(result.val) = 3
          /\ \A i \in 1..3 : result.val[i] = ValueOrZero(candidate_stats, PctOrder[i])

C6_Witness ==
    /\ Done("extract_statistics")
    /\ DOMAIN candidate_stats = {"p25", "percentiles"}
    /\ candidate_stats["p25"] = 1
    /\ candidate_stats["percentiles"] = PctDict(("p25" :> 2) @@ ("p50" :> 1))
    /\ result = Returned("list", <<0, 0, 0, 0, 0, 0, 0, 2, 1, 0>>)

\* C7: should_compare_fields never raises; for truthy, unequal identifiers of
\* which one is not a str it returns False.
C7_GateNeverRaises ==
    Done("should_compare_fields")
    => /\ result.kind = "bool"
       /\ (Truthy(candidate_field_id) /\ Truthy(root_field_id)
             /\ candidate_field_id # root_field_id
             /\ (candidate_field_id.t # "str" \/ root_field_id.t # "str"))
          => result = PyFalse

C7_Witness ==
    /\ Done("should_compare_fields")
    /\ candidate_field_id = A_Foo /\ root_field_id = PyInt(7)
    /\ result = PyFalse

\* C8: when the two extracted vectors are permutations of each other,
\* compare_percentiles returns 0, and so does compare_statistics when it is
\* not stopped by the gate; compare_statistics({}, {}, "x/name", "y/surname")
\* passes the gate and returns 0.0.
C8_PermutationsAtDistanceZero ==
    /\ (Done("compare_percentiles")
         /\ IsPermutation(extract_percentiles(candidate_stats).val,
                          extract_percentiles(root_stats).val))
       => result = Zero
    /\ (Done("compare_statistics")
         /\ (BothSupplied => should_compare_fields(candidate_field_id, root_field_id) = PyTrue)
         /\ WellFormed(candidate_stats) /\ WellFormed(root_stats)
         /\ IsPermutation(extract_statistics(candidate_stats).val,
                          extract_statistics(root_stats).val))
       => result = Zero
    /\ (Done("compare_statistics")
         /\ candidate_stats = EmptyDict /\ root_stats = EmptyDict
         /\ candidate_field_id = X_Name /\ root_field_id = Y_Surname)
       => /\ result = Zero
          /\ calls = <<"should_compare_fields", "extract_statistics",
                       "extract_statistics", "wasserstein_distance">>

C8_Witness ==
    /\ Done("compare_statistics")
    /\ candidate_field_id = X_Name /\ root_field_id = Y_Surname
    /\ DOMAIN candidate_stats = {"min"} /\ DOMAIN root_stats = {"percentiles"}
    /\ extract_statistics(candidate_stats).val
         # extract_statistics(root_stats).val
    /\ IsPermutation(extract_statistics(candidate_stats).val,
                     extract_statistics(root_stats).val)
    /\ result = Zero

\* C9: compare_percentiles gives the same result with its two records
\* exchanged, and so does compare_statistics without identifiers.
C9_Symmetric ==
    /\ Done("compare_percentiles")
       => result = compare_percentiles(root_stats, candidate_stats).out
    /\ (Done("compare_statistics")
         /\ candidate_field_id = NoneV /\ root_field_id = NoneV)
       => result = compare_statistics(root_stats, candidate_stats, NoneV, NoneV).out

C9_Witness ==
    /\ Done("compare_percentiles")
    /\ DOMAIN candidate_stats = {"p25", "p50", "p75"} /\ DOMAIN root_stats = {"p50"}
    /\ result.kind = "float" /\ result.val[1] > 0

\* "" replaced by None
NoneForEmpty(id) == IF id = EmptyStr THEN NoneV ELSE id

\* C10: with both identifiers supplied and at least one of them "",
\* compare_statistics returns float("inf") whatever the records; with None in
\* place of "" the same call gives the ungated distance instead.
C10_EmptyIdIsSupplied ==
    (Done("compare_statistics") /\ BothSupplied
        /\ (candidate_field_id = EmptyStr \/ root_field_id = EmptyStr))
    => /\ result = Inf
       /\ LET ungated == compare_statistics(candidate_stats, root_stats,
                                            NoneForEmpty(candidate_field_id),
                                            NoneForEmpty(root_field_id)).out
          IN  /\ ungated # Inf
              /\ ungated = DirectDistance(candidate_stats, root_stats)
              /\ (WellFormed(candidate_stats) /\ WellFormed(root_stats))
                 => ungated.kind = "float"

C10_Witness ==
    /\ Done("compare_statistics")
    /\ candidate_field_id = EmptyStr /\ root_field_id = EmptyStr
    /\ DOMAIN candidate_stats = {"max"}
    /\ result = Inf

============================================================================
